---- MODULE Spec2Model ----
(***************************************************************************)
(* A model of the prompt composer of the rewriter package                  *)
(* (src/rewriter/prompts.py, class PromptGenerator) and of the rewriter    *)
(* that fronts the assembly line (src/rewriter/core.py, class AIRewriter). *)
(*                                                                         *)
(* Python dicts are functions whose DOMAIN is the set of keys present, so  *)
(* `k in d` is  k \in DOMAIN d  and  d.get(k, default)  is  Get(d, k,      *)
(* default).  A string is a Text: a sequence of chunks, each chunk a       *)
(* record [id, len] naming a piece of text and its number of characters;   *)
(* concatenation is \o and len() is TextLen.  Literal pieces of the        *)
(* code's f-strings are chunks whose id is the literal itself.             *)
(***************************************************************************)
EXTENDS Integers, Sequences, FiniteSets, Bags, TLC

VARIABLES
    style_guide_dir,  \* the style guide's directory on disk, as os.listdir reads it
    prompt_config,    \* self.prompt_config
    use_ollama,       \* self.use_ollama
    pc,               \* where the composer is: "new", "idle", "loop", "done"
    op,               \* the entry point being served ("" when none)
    errors,           \* the `errors` argument of the call being served
    gp,               \* the locals of generate_prompt while its loop runs
    result,           \* what the last call returned
    rw                \* the AIRewriter: its progress callback and the call it serves

vars == <<style_guide_dir, prompt_config, use_ollama, pc, op, errors, gp, result, rw>>

-----------------------------------------------------------------------------
(* Bounds of the model *)

\* longest error list given to generate_prompt and the pass generators
MaxErrors == 3
\* largest number of files in a style guide directory
MaxFiles == 2
\* longest error list given to the strategy selector
MaxTotal == 25
\* largest number of distinct error types in such a list
MaxTypes == 10

-----------------------------------------------------------------------------
(* Python values *)

EmptyDict == <<>>

\* `not d` for a dict (or None, which a missing key or an empty file gives)
IsEmptyDict(d) == DOMAIN d = {}

Get(d, k, default) == IF k \in DOMAIN d THEN d[k] ELSE default

\* dict.update: keys of b overwrite keys of a
Update(a, b) ==
    [k \in (DOMAIN a) \cup (DOMAIN b) |-> IF k \in DOMAIN b THEN b[k] ELSE a[k]]

\* a string literal of the code
Lit(s) == <<[id |-> s, len |-> Len(s)]>>

\* a string of n characters supplied by a rule file or an error record
Blob(name, n) == IF n = 0 THEN <<>> ELSE <<[id |-> name, len |-> n]>>

RECURSIVE TextLen(_)
TextLen(t) == IF t = <<>> THEN 0 ELSE Head(t).len + TextLen(Tail(t))

\* sep.join(parts)
RECURSIVE Join(_, _)
Join(sep, parts) ==
    IF parts = <<>> THEN <<>>
    ELSE IF Len(parts) = 1 THEN parts[1]
    ELSE parts[1] \o sep \o Join(sep, Tail(parts))

\* s[:n] for a list
Prefix(s, n) == SubSeq(s, 1, IF Len(s) < n THEN Len(s) ELSE n)

RECURSIVE Flatten(_)
Flatten(ss) == IF ss = <<>> THEN <<>> ELSE Head(ss) \o Flatten(Tail(ss))

RECURSIVE SeqToBag(_)
SeqToBag(s) ==
    IF s = <<>> THEN EmptyBag ELSE SetToBag({Head(s)}) (+) SeqToBag(Tail(s))

Range(s) == {s[i] : i \in DOMAIN s}

-----------------------------------------------------------------------------
(* _load_prompt_config *)

\* one pass of the loop over os.listdir: the files from index i on are merged
\* into `merged`; an exception raised by open() or yaml.safe_load leaves the loop
RECURSIVE MergeFiles(_, _, _)
MergeFiles(files, i, merged) ==
    IF i > Len(files) THEN [raised |-> FALSE, merged |-> merged]
    ELSE LET f == files[i] IN
         IF f.ext \notin {".yaml", ".yml"} THEN MergeFiles(files, i + 1, merged)
         ELSE IF f.kind \in {"unreadable", "malformed"}
              THEN [raised |-> TRUE, merged |-> merged]
         ELSE IF ~IsEmptyDict(f.config) /\ "rules" \in DOMAIN f.config
              THEN MergeFiles(files, i + 1, Update(merged, f.config.rules))
         ELSE MergeFiles(files, i + 1, merged)

LoadPromptConfigPerFile(dir) ==
    IF ~dir.exists THEN EmptyDict
    ELSE MergeFiles(dir.files, 1, EmptyDict).merged

LoadPromptConfig(dir) ==
    IF ~dir.exists THEN EmptyDict
    ELSE LET r == MergeFiles(dir.files, 1, EmptyDict) IN
         IF r.raised THEN EmptyDict ELSE r.merged

-----------------------------------------------------------------------------
(* The rule files and error records the model draws its inputs from *)

RuleSecondPerson ==
    [primary_command |-> Blob("pc_second_person", 40),
     instruction     |-> Blob("instr_second_person", 1480)]

RulePassiveVoice ==
    [primary_command |-> Blob("pc_passive_voice", 30),
     instruction     |-> Blob("instr_passive_voice", 700),
     transformations |->
        << [pattern  |-> Blob("pat_be_verb", 20),
            examples |-> <<Blob("ex1", 10), Blob("ex2", 10),
                           Blob("ex3", 10), Blob("ex4", 10)>>],
           [examples |-> <<Blob("ex5", 10)>>],
           [pattern  |-> Blob("pat_by_agent", 15)],
           [pattern  |-> Blob("pat_get", 12)] >>,
     fallback        |-> Blob("fb_passive_voice", 100)]

RuleVerbs ==
    [instruction  |-> Blob("instr_verbs", 780),
     fallback     |-> Blob("fb_verbs", 60),
     instructions |-> <<Blob("legacy_verbs_1", 30), Blob("legacy_verbs_2", 30)>>,
     examples     |-> <<Blob("legacy_example", 25)>>]

RulePronounsLong ==
    [instruction |-> Blob("instr_pronouns", 900)]

RulePronouns ==
    [primary_command |-> Blob("pc_pronouns", 20),
     fallback        |-> Blob("fb_pronouns", 700)]

\* primary_command: "" in a rule file
RuleUnknown ==
    [primary_command |-> <<>>,
     instruction     |-> Blob("instr_unknown", 50)]

FileCore ==
    [ext |-> ".yaml", kind |-> "parsed",
     config |-> [rules |-> [second_person |-> RuleSecondPerson,
                            passive_voice |-> RulePassiveVoice,
                            verbs         |-> RuleVerbs]]]

FileExtra ==
    [ext |-> ".yml", kind |-> "parsed",
     config |-> [rules |-> [pronouns |-> RulePronouns,
                            unknown  |-> RuleUnknown]]]

FileOverride ==
    [ext |-> ".yaml", kind |-> "parsed",
     config |-> [rules |-> [pronouns      |-> RulePronounsLong,
                            second_person |-> EmptyDict]]]

\* a YAML mapping without a `rules` key
FileNoRules ==
    [ext |-> ".yaml", kind |-> "parsed", config |-> [version |-> Blob("v", 1)]]

\* an empty YAML document: safe_load returns None
FileEmpty == [ext |-> ".yaml", kind |-> "parsed", config |-> EmptyDict]

\* yaml.safe_load raises
FileMalformed == [ext |-> ".yaml", kind |-> "malformed", config |-> EmptyDict]

\* open() raises
FileUnreadable == [ext |-> ".yml", kind |-> "unreadable", config |-> EmptyDict]

\* not a .yaml or .yml file: never opened
FileReadme == [ext |-> ".md", kind |-> "malformed", config |-> EmptyDict]

Files ==
    {FileCore, FileExtra, FileOverride, FileNoRules, FileEmpty,
     FileMalformed, FileUnreadable, FileReadme}

RECURSIVE SeqsUpTo(_, _)
SeqsUpTo(S, n) ==
    IF n = 0 THEN {<<>>}
    ELSE LET shorter == SeqsUpTo(S, n - 1) IN
         shorter \cup {Append(s, x) : s \in {t \in shorter : Len(t) = n - 1}, x \in S}

MissingDir == [exists |-> FALSE, files |-> <<>>]

\* every directory the loader is tried on
Dirs ==
    {MissingDir} \cup {[exists |-> TRUE, files |-> fs] : fs \in SeqsUpTo(Files, MaxFiles)}

\* the style guides the composer is constructed from when its calls are explored
StyleGuides ==
    { MissingDir,
      [exists |-> TRUE, files |-> <<FileCore>>],
      [exists |-> TRUE, files |-> <<FileCore, FileExtra>>],
      [exists |-> TRUE, files |-> <<FileCore, FileOverride>>] }

FixQuick ==
    [type |-> "quick", text_span |-> Blob("span_q", 8), scope |-> "word",
     suggestions |-> <<Blob("sugg_q1", 12), Blob("sugg_q2", 12), Blob("sugg_q3", 12)>>]

FixComprehensive ==
    [type |-> "comprehensive", text_span |-> Blob("span_c", 20), scope |-> "sentence",
     suggestions |-> <<Blob("sugg_c1", 30)>>]

\* an option of another type: it gets no fix line, only an Alternative line
FixManual ==
    [type |-> "manual", suggestions |-> <<Blob("sugg_m1", 9), Blob("sugg_m2", 9)>>]

\* a quick option without suggestions: it gets no line at all
FixNoSuggestions ==
    [type |-> "quick", text_span |-> Blob("span_n", 5), suggestions |-> <<>>]

ErrorRecords ==
    { [type |-> "second_person", severity |-> "low"],
      [type |-> "passive_voice", severity |-> "medium"],
      [type |-> "passive_voice", severity |-> "high", sentence |-> Blob("sentence_1", 80)],
      [type |-> "passive_voice", severity |-> "low", sentence |-> Blob("sentence_2", 30)],
      [type |-> "verbs"],
      [type |-> "verbs", severity |-> "urgent",
       message |-> Blob("msg", 10), text_span |-> Blob("span", 9),
       consolidated_from |-> <<"r1", "r2">>,
       fix_options |-> <<FixQuick, FixComprehensive>>],
      [type |-> "ambiguity", subtype |-> "pronouns", severity |-> "medium"],
      [severity |-> "high"],
      [type |-> "passive_voice", severity |-> "medium", sentence |-> Blob("sentence_3", 51)],
      [type |-> "ambiguity", subtype |-> "pronouns", severity |-> "low",
       text_span |-> Blob("span_p", 7),
       fix_options |-> <<FixQuick, FixManual, FixNoSuggestions>>] }

ErrorLists == SeqsUpTo(ErrorRecords, MaxErrors)

-----------------------------------------------------------------------------
(* Classification and prioritization: generate_prompt, lines 73-129 *)

MapSeverityToPriorityDropUnknown(severity) ==
    CASE severity = "high" -> "urgent"
      [] severity = "medium" -> "high"
      [] severity = "low" -> "medium"
      [] OTHER -> "none"

\* a table that gives severity low the priority low
MapSeverityToPriorityKeepLow(severity) ==
    CASE severity = "high" -> "urgent"
      [] severity = "medium" -> "high"
      [] severity = "low" -> "low"
      [] OTHER -> "medium"

\* _map_severity_to_priority
MapSeverityToPriority(severity) ==
    CASE severity = "high" -> "urgent"
      [] severity = "medium" -> "high"
      [] severity = "low" -> "medium"
      [] OTHER -> "medium"

EmptyGroups == [urgent |-> <<>>, high |-> <<>>, medium |-> <<>>, low |-> <<>>]

\* each bucket keeps only the last error put in it
RECURSIVE PriorityGroupsKeepLast(_, _)
PriorityGroupsKeepLast(errs, groups) ==
    IF errs = <<>> THEN groups
    ELSE LET error    == Head(errs)
             priority == MapSeverityToPriority(Get(error, "severity", "medium"))
         IN  PriorityGroupsKeepLast(Tail(errs),
                IF priority \in DOMAIN groups
                THEN [groups EXCEPT ![priority] = <<error>>]
                ELSE groups)

\* the loop  for error in errors: ... priority_groups[priority].append(error)
RECURSIVE PriorityGroups(_, _)
PriorityGroups(errs, groups) ==
    IF errs = <<>> THEN groups
    ELSE LET error    == Head(errs)
             severity == Get(error, "severity", "medium")
             priority == MapSeverityToPriority(severity)
         IN  PriorityGroups(Tail(errs),
                IF priority \in DOMAIN groups
                THEN [groups EXCEPT ![priority] = Append(@, error)]
                ELSE groups)

PriorityOrder == <<"urgent", "high", "medium", "low">>

PrioritizedErrors(errs) ==
    LET priority_groups == PriorityGroups(errs, EmptyGroups) IN
    Flatten([i \in 1..4 |-> priority_groups[PriorityOrder[i]]])

\* the key an error is grouped under: its subtype when its type is `ambiguity`
ErrorType(error) ==
    IF "type" \in DOMAIN error /\ error.type = "ambiguity"
    THEN Get(error, "subtype", "unknown")
    ELSE Get(error, "type", "unknown")

\* error_groups, a defaultdict(list) in insertion order: a sequence of
\* [error_type, error_list] items
RECURSIVE ErrorGroups(_, _)
ErrorGroups(errs, groups) ==
    IF errs = <<>> THEN groups
    ELSE LET error == Head(errs)
             t     == ErrorType(error)
             at    == {i \in DOMAIN groups : groups[i].error_type = t}
         IN  ErrorGroups(Tail(errs),
                IF at = {}
                THEN Append(groups, [error_type |-> t, error_list |-> <<error>>])
                ELSE [i \in DOMAIN groups |->
                        IF i \in at
                        THEN [groups[i] EXCEPT !.error_list = Append(@, error)]
                        ELSE groups[i]])

HasHighSeverity(error_list) ==
    \E i \in DOMAIN error_list :
        /\ "severity" \in DOMAIN error_list[i]
        /\ error_list[i].severity \in {"high", "urgent"}

CriticalRuleTypes ==
    {"inclusive_language", "second_person", "legal_claims",
     "unsupported_claims", "fabrication_risk"}

\* _is_critical_rule_type
IsCriticalRuleType(error_type) == error_type \in CriticalRuleTypes

IsCriticalGroup(g) ==
    HasHighSeverity(g.error_list) \/ IsCriticalRuleType(g.error_type)

HighPriorityTypes(groups) == SelectSeq(groups, IsCriticalGroup)

OtherTypes(groups) == SelectSeq(groups, LAMBDA g : ~IsCriticalGroup(g))

ProcessingOrderAsSeen(groups) == groups

\* processing_order = high_priority_types + other_types
ProcessingOrder(groups) == HighPriorityTypes(groups) \o OtherTypes(groups)

-----------------------------------------------------------------------------
(* Instruction assembly: the loop of generate_prompt, lines 105-208 *)

MAX_PROMPT_LENGTH == 1500

Truthy(text) == TextLen(text) > 0

\* text[:n] for a string: the chunks that fit, the last one cut short
RECURSIVE TextPrefix(_, _)
TextPrefix(text, n) ==
    IF text = <<>> \/ n = 0 THEN <<>>
    ELSE IF Head(text).len <= n
         THEN <<Head(text)>> \o TextPrefix(Tail(text), n - Head(text).len)
         ELSE <<[id |-> Head(text).id, len |-> n]>>

\* lines 146-153: every transformation adds its pattern and up to 3 examples
RECURSIVE TransformationsText(_)
TransformationsText(transformations) ==
    IF transformations = <<>> THEN <<>>
    ELSE LET transformation == Head(transformations) IN
         (IF "pattern" \in DOMAIN transformation
          THEN Lit("Apply: ") \o transformation.pattern \o Lit(". ")
          ELSE <<>>)
         \o (IF "examples" \in DOMAIN transformation
             THEN Lit("Examples: ")
                  \o Join(Lit("; "), Prefix(transformation.examples, 3))
                  \o Lit(". ")
             ELSE <<>>)
         \o TransformationsText(Tail(transformations))

\* lines 135-153: instruction_text, whose length the budget check projects
InstructionText(rule_config, primary_command) ==
    (IF "primary_command" \in DOMAIN rule_config /\ ~Truthy(primary_command)
     THEN rule_config.primary_command \o Lit(" ")
     ELSE <<>>)
    \o (IF "instruction" \in DOMAIN rule_config
        THEN rule_config.instruction \o Lit(" ")
        ELSE <<>>)
    \o (IF "transformations" \in DOMAIN rule_config
        THEN TransformationsText(rule_config.transformations)
        ELSE <<>>)

\* lines 178-184: one Pattern line, for transformation number i (from 1)
PatternText(i, transformation) ==
    Lit("Pattern ") \o Lit(ToString(i)) \o Lit(": ") \o transformation.pattern
    \o (IF "examples" \in DOMAIN transformation
        THEN Lit(" (e.g., ")
             \o Join(Lit("; "), Prefix(transformation.examples, 2))
             \o Lit(")")
        ELSE <<>>)

PatternParts(transformations) ==
    LET first3 == Prefix(transformations, 3)
        withPattern == {i \in DOMAIN first3 : "pattern" \in DOMAIN first3[i]}
        Line(i) == IF i \in withPattern THEN <<PatternText(i, first3[i])>> ELSE <<>>
    IN  Flatten([i \in DOMAIN first3 |-> Line(i)])

\* lines 170-188: instruction_parts
InstructionParts(rule_config) ==
    (IF "instruction" \in DOMAIN rule_config
     THEN <<rule_config.instruction>> ELSE <<>>)
    \o (IF "transformations" \in DOMAIN rule_config
        THEN PatternParts(rule_config.transformations) ELSE <<>>)
    \o (IF "fallback" \in DOMAIN rule_config
        THEN <<Lit("Fallback: ") \o rule_config.fallback>> ELSE <<>>)

\* line 203: the set of non-empty sentences of the passive voice errors
PassiveSentences(error_list) ==
    {error_list[i].sentence : i \in {j \in DOMAIN error_list :
        "sentence" \in DOMAIN error_list[j] /\ Truthy(error_list[j].sentence)}}

\* line 204: list(passive_sentences)[:2]; a set is listed in no fixed order
PassiveSentenceLists(error_list) ==
    LET S == PassiveSentences(error_list) IN
    IF S = {} THEN {<<>>}
    ELSE IF Cardinality(S) = 1 THEN {<<x>> : x \in S}
    ELSE {<<x, y>> : x \in S, y \in S} \ {<<x, x>> : x \in S}

\* the example line with the whole sentence
PassiveExampleUntruncated(sentence) ==
    Lit("  Example: '") \o sentence \o Lit("...' needs active voice")

PassiveExample(sentence) ==
    Lit("  Example: '") \o TextPrefix(sentence, 50) \o Lit("...' needs active voice")

\* the example lists line 202-205 may add for one group
ExampleChoices(g) ==
    IF g.error_type = "passive_voice"
    THEN {[i \in DOMAIN ss |-> PassiveExample(ss[i])] : ss \in PassiveSentenceLists(g.error_list)}
    ELSE {<<>>}

\* the locals of the loop before its first iteration (lines 105-108)
LoopStart ==
    [primary_command |-> <<>>, specific_instructions |-> <<>>,
     current_prompt_length |-> 0, stopped |-> FALSE]

\* the `break` of line 163 taken by critical types too
ProcessTypeBreakAlways(config, st, g, examples) ==
    LET rule_config == Get(config, g.error_type, EmptyDict) IN
    IF IsEmptyDict(rule_config) THEN st
    ELSE LET instruction_text == InstructionText(rule_config, st.primary_command)
             instruction_parts == InstructionParts(rule_config)
         IN  IF st.current_prompt_length + TextLen(instruction_text) > MAX_PROMPT_LENGTH
             THEN [st EXCEPT !.stopped = TRUE]
             ELSE [st EXCEPT
                     !.primary_command =
                        IF "primary_command" \in DOMAIN rule_config /\ ~Truthy(@)
                        THEN rule_config.primary_command ELSE @,
                     !.specific_instructions =
                        @ \o instruction_parts
                          \o Get(rule_config, "instructions", <<>>)
                          \o Get(rule_config, "examples", <<>>)
                          \o examples,
                     !.current_prompt_length =
                        @ + TextLen(Join(Lit(" "), instruction_parts))]

\* a later primary_command replaces the one already set
ProcessTypeLastCommand(config, st, g, examples) ==
    LET rule_config == Get(config, g.error_type, EmptyDict) IN
    IF IsEmptyDict(rule_config) THEN st
    ELSE LET instruction_text == InstructionText(rule_config, st.primary_command)
             instruction_parts == InstructionParts(rule_config)
             primary_command ==
                IF "primary_command" \in DOMAIN rule_config
                THEN rule_config.primary_command ELSE st.primary_command
         IN  IF /\ ~IsCriticalGroup(g)
                /\ st.current_prompt_length + TextLen(instruction_text) > MAX_PROMPT_LENGTH
             THEN [st EXCEPT !.primary_command = primary_command, !.stopped = TRUE]
             ELSE [st EXCEPT
                     !.primary_command = primary_command,
                     !.specific_instructions =
                        @ \o instruction_parts
                          \o Get(rule_config, "instructions", <<>>)
                          \o Get(rule_config, "examples", <<>>)
                          \o examples,
                     !.current_prompt_length =
                        @ + TextLen(Join(Lit(" "), instruction_parts))]

\* one iteration of the loop of lines 131-208 on group g, with the example
\* lines `examples` for it: the locals after the iteration
ProcessType(config, st, g, examples) ==
    LET rule_config == Get(config, g.error_type, EmptyDict) IN
    IF IsEmptyDict(rule_config) THEN st
    ELSE LET instruction_text == InstructionText(rule_config, st.primary_command)
             instruction_parts == InstructionParts(rule_config)
             \* lines 137-138: taken before the length check
             primary_command ==
                IF "primary_command" \in DOMAIN rule_config /\ ~Truthy(st.primary_command)
                THEN rule_config.primary_command ELSE st.primary_command
         IN  IF /\ ~IsCriticalGroup(g)
                /\ st.current_prompt_length + TextLen(instruction_text) > MAX_PROMPT_LENGTH
             THEN [st EXCEPT !.primary_command = primary_command, !.stopped = TRUE]
             ELSE [st EXCEPT
                     !.primary_command = primary_command,
                     !.specific_instructions =
                        @ \o instruction_parts
                          \o Get(rule_config, "instructions", <<>>)
                          \o Get(rule_config, "examples", <<>>)
                          \o examples,
                     !.current_prompt_length =
                        @ + TextLen(Join(Lit(" "), instruction_parts))]

\* the loop from position i of processing_order on: every way it can end
RECURSIVE RunLoop(_, _, _, _)
RunLoop(config, order, i, st) ==
    IF i > Len(order) \/ st.stopped THEN {st}
    ELSE UNION {RunLoop(config, order, i + 1, ProcessType(config, st, order[i], ex)) :
                    ex \in ExampleChoices(order[i])}

-----------------------------------------------------------------------------
(* Fix options: lines 551-637 *)

\* str.upper() on the error types and strategy labels of the model
Upper(s) ==
    CASE s = "second_person" -> "SECOND_PERSON"
      [] s = "passive_voice" -> "PASSIVE_VOICE"
      [] s = "verbs" -> "VERBS"
      [] s = "pronouns" -> "PRONOUNS"
      [] s = "unknown" -> "UNKNOWN"
      [] s = "balanced" -> "BALANCED"
      [] s = "targeted" -> "TARGETED"
      [] s = "comprehensive" -> "COMPREHENSIVE"

HasFixOptions(error) ==
    "fix_options" \in DOMAIN error /\ error.fix_options # <<>>

\* the lines one fix option adds (lines 570-589)
OptionLines(option) ==
    LET option_type == Get(option, "type", "unknown")
        target_span == Get(option, "text_span", <<>>)
        suggestions == Get(option, "suggestions", <<>>)
    IN  (IF option_type = "quick" /\ suggestions # <<>>
         THEN <<Lit("QUICK FIX for '") \o target_span \o Lit("': ") \o suggestions[1]>>
         ELSE IF option_type = "comprehensive" /\ suggestions # <<>>
         THEN <<Lit("COMPREHENSIVE FIX for '") \o target_span \o Lit("': ")
                \o suggestions[1]>>
         ELSE <<>>)
        \o [i \in 1..(IF Len(suggestions) >= 2 THEN 1 ELSE 0) |->
                Lit("  Alternative: ") \o suggestions[i + 1]]

\* _process_fix_options
ProcessFixOptions(error) ==
    IF ~HasFixOptions(error) THEN <<>>
    ELSE (IF "consolidated_from" \in DOMAIN error /\ error.consolidated_from # <<>>
          THEN <<Lit("CONSOLIDATED ISSUE: '") \o Get(error, "text_span", <<>>)
                 \o Lit("' has ") \o Lit(ToString(Len(error.consolidated_from)))
                 \o Lit(" overlapping problems")>>
          ELSE <<>>)
         \o Flatten([i \in DOMAIN error.fix_options |-> OptionLines(error.fix_options[i])])

\* the lines one group adds (lines 602-613)
GroupFixLines(g) ==
    LET errors_with_options == SelectSeq(g.error_list, HasFixOptions) IN
    IF errors_with_options = <<>> THEN <<>>
    ELSE <<Lit("=== ") \o Lit(Upper(g.error_type)) \o Lit(" FIXES ===")>>
         \o Flatten([i \in DOMAIN errors_with_options |->
                ProcessFixOptions(errors_with_options[i])
                \o (IF Len(errors_with_options) > 1 THEN <<Lit("---")>> ELSE <<>>)])

\* the fix lines of the first type of the processing order only
EnhanceFirstTypeOnly(processing_order) ==
    IF processing_order = <<>> THEN <<>> ELSE GroupFixLines(processing_order[1])

\* _enhance_instructions_with_fix_options
EnhanceInstructionsWithFixOptions(processing_order) ==
    Flatten([i \in DOMAIN processing_order |-> GroupFixLines(processing_order[i])])

RECURSIVE CountOptions(_, _)
CountOptions(errs, option_type) ==
    IF errs = <<>> THEN 0
    ELSE (IF HasFixOptions(Head(errs))
          THEN Cardinality({i \in DOMAIN Head(errs).fix_options :
                   Get(Head(errs).fix_options[i], "type", "unknown") = option_type})
          ELSE 0)
         + CountOptions(Tail(errs), option_type)

\* a tie between the two counts reported as `targeted`
GetDominantFixStrategyTieTargeted(errs) ==
    LET quick_fixes == CountOptions(errs, "quick")
        comprehensive_fixes == CountOptions(errs, "comprehensive")
    IN  IF comprehensive_fixes > quick_fixes THEN "comprehensive" ELSE "targeted"

\* _get_dominant_fix_strategy
GetDominantFixStrategy(errs) ==
    LET quick_fixes == CountOptions(errs, "quick")
        comprehensive_fixes == CountOptions(errs, "comprehensive")
    IN  IF comprehensive_fixes > quick_fixes THEN "comprehensive"
        ELSE IF quick_fixes > comprehensive_fixes THEN "targeted"
        ELSE "balanced"

-----------------------------------------------------------------------------
(* Rendering and the whole of generate_prompt *)

\* the text every call is made on
Content == Blob("content", 120)

\* the return of line 71
GenericPrompt(content) ==
    [template |-> "generic", content |-> content]

FallbackInstructions ==
    <<Lit("Apply standard corporate writing improvements"),
      Lit("Use active voice and clear, concise language")>>

\* _build_ollama_prompt_v3 and _build_hf_prompt_v3: the template chosen and
\* what it interpolates; the fix option block is there only when the list
\* is not empty
BuildPrompt(ollama, content, primary_command, specific_instructions, fix_option_instructions, fix_strategy) ==
    [template |-> IF ollama THEN "ollama_v3" ELSE "hf_v3",
     primary_command |-> primary_command,
     instructions |-> [i \in DOMAIN specific_instructions |->
                          Lit("- ") \o specific_instructions[i]],
     fix_options |-> IF fix_option_instructions = <<>> THEN <<>>
                     ELSE <<Lit(Upper(fix_strategy))>> \o fix_option_instructions,
     content |-> content]

\* lines 210-232: from the locals the loop ended with to the prompt
FinishPrompt(ollama, content, errs, processing_order, st) ==
    LET specific_instructions ==
            IF st.specific_instructions = <<>> THEN FallbackInstructions
            ELSE st.specific_instructions
        fix_options_available ==
            Cardinality({i \in DOMAIN errs : HasFixOptions(errs[i])})
        fix_option_instructions ==
            IF fix_options_available > 0
            THEN EnhanceInstructionsWithFixOptions(processing_order)
            ELSE <<>>
    IN  BuildPrompt(ollama, content, st.primary_command, specific_instructions,
                    fix_option_instructions, GetDominantFixStrategy(errs))

\* processing_order as generate_prompt builds it from its errors argument
ProcessingOrderOf(errs) ==
    ProcessingOrder(ErrorGroups(PrioritizedErrors(errs), <<>>))

\* the locals of generate_prompt when its loop starts (lines 73-129)
LocalsAtLoop(errs) ==
    [priority_groups |-> PriorityGroups(errs, EmptyGroups),
     prioritized_errors |-> PrioritizedErrors(errs),
     order |-> ProcessingOrderOf(errs),
     i |-> 1,
     st |-> LoopStart]

\* generate_prompt: every prompt it can return
GeneratePrompt(config, ollama, content, errs) ==
    IF IsEmptyDict(config) THEN {GenericPrompt(content)}
    ELSE LET order == ProcessingOrderOf(errs) IN
         {FinishPrompt(ollama, content, errs, order, st) :
             st \in RunLoop(config, order, 1, LoopStart)}

-----------------------------------------------------------------------------
(* generate_multi_pass_prompts, lines 351-428 *)

Focus(pass_type) ==
    CASE pass_type = "urgent" -> "Urgent fixes that break professional standards"
      [] pass_type = "high" -> "High priority fixes for major readability impact"
      [] pass_type = "medium" -> "Medium priority fixes for important improvements"
      [] pass_type = "low" -> "Low priority fixes for final polish and refinement"
      [] pass_type = "general" -> "General style improvements"

PassNumberByTier(k, passes) == k

\* the pass_number each of the four blocks gives its pass (lines 374, 385, 396, 407)
PassNumber(k, passes) ==
    CASE k = 1 -> 1
      [] k = 2 -> IF passes # <<>> THEN 2 ELSE 1
      [] OTHER -> Len(passes) + 1

\* the four blocks of lines 369-411 from tier number k on, `passes` being the
\* list built so far: every list they can build
RECURSIVE TierPasses(_, _, _, _, _, _)
TierPasses(config, ollama, content, priority_groups, k, passes) ==
    IF k > 4 THEN {passes}
    ELSE LET tier == PriorityOrder[k]
             tier_errors == priority_groups[tier]
         IN  IF tier_errors = <<>>
             THEN TierPasses(config, ollama, content, priority_groups, k + 1, passes)
             ELSE UNION {
                    TierPasses(config, ollama, content, priority_groups, k + 1,
                        Append(passes,
                            [prompt |-> prompt,
                             pass_number |-> PassNumber(k, passes),
                             pass_type |-> tier,
                             error_count |-> Len(tier_errors),
                             focus |-> Focus(tier)])) :
                    prompt \in GeneratePrompt(config, ollama, content, tier_errors)}

\* generate_multi_pass_prompts: every list of passes it can return
GenerateMultiPassPrompts(config, ollama, content, errs) ==
    IF errs = <<>>
    THEN {<<[prompt |-> GenericPrompt(content), pass_number |-> 1, error_count |-> 0]>>}
    ELSE LET priority_groups == PriorityGroups(errs, EmptyGroups)
             built == TierPasses(config, ollama, content, priority_groups, 1, <<>>)
         IN  UNION {
                IF passes # <<>> THEN {passes}
                ELSE {<<[prompt |-> prompt,
                         pass_number |-> 1,
                         pass_type |-> "general",
                         error_count |-> Len(errs),
                         focus |-> Focus("general")]>> :
                      prompt \in GeneratePrompt(config, ollama, content, errs)} :
                passes \in built}

-----------------------------------------------------------------------------
(* get_optimal_processing_strategy and generate_optimal_prompts, lines 430-519 *)

EmptyCounts == [urgent |-> 0, high |-> 0, medium |-> 0, low |-> 0]

\* the loop of lines 449-453
RECURSIVE PriorityCounts(_, _)
PriorityCounts(errs, counts) ==
    IF errs = <<>> THEN counts
    ELSE LET priority == MapSeverityToPriority(Get(Head(errs), "severity", "medium")) IN
         PriorityCounts(Tail(errs),
            IF priority \in DOMAIN counts
            THEN [counts EXCEPT ![priority] = @ + 1]
            ELSE counts)

Max(a, b) == IF a > b THEN a ELSE b

Min(a, b) == IF a < b THEN a ELSE b

HighComplexityPassesUnclamped(error_types) == error_types \div 3

\* line 484
HighComplexityPasses(error_types) == Max(2, Min(3, error_types \div 3))

NoErrorsStrategyZeroPasses ==
    [strategy |-> "single_pass", reason |-> "No errors detected",
     passes |-> 0, estimated_prompt_length |-> 0]

\* the return of lines 436-441
NoErrorsStrategy ==
    [strategy |-> "single_pass", reason |-> "No errors detected",
     passes |-> 1, estimated_prompt_length |-> 200]

\* get_optimal_processing_strategy
GetOptimalProcessingStrategy(errs) ==
    IF errs = <<>> THEN NoErrorsStrategy
    ELSE
    LET total_errors == Len(errs)
        error_types == Cardinality({Get(errs[i], "type", "unknown") : i \in DOMAIN errs})
        priority_counts == PriorityCounts(errs, EmptyCounts)
        estimated_length == 300 + error_types * 80 + total_errors * 20
    IN  IF total_errors <= 15 /\ error_types <= 5 /\ estimated_length <= 1500
        THEN [strategy |-> "single_pass", reason |-> "Manageable complexity",
              passes |-> 1, estimated_prompt_length |-> estimated_length]
        ELSE IF /\ priority_counts.urgent > 0
                /\ \/ priority_counts.high > 0
                   \/ priority_counts.medium > 0
                   \/ priority_counts.low > 0
        THEN [strategy |-> "multi_pass", reason |-> "Mixed priority levels",
              passes |-> Cardinality({t \in DOMAIN priority_counts : priority_counts[t] > 0}),
              estimated_prompt_length |-> estimated_length \div 2]
        ELSE IF total_errors > 20 \/ error_types > 8
        THEN [strategy |-> "multi_pass", reason |-> "High complexity",
              passes |-> HighComplexityPasses(error_types),
              estimated_prompt_length |-> estimated_length \div 2]
        ELSE [strategy |-> "single_pass_smart", reason |-> "Moderate complexity",
              passes |-> 1, estimated_prompt_length |-> Min(estimated_length, 1500)]

\* generate_optimal_prompts: every list of passes it can return
GenerateOptimalPrompts(config, ollama, content, errs) ==
    LET strategy_info == GetOptimalProcessingStrategy(errs) IN
    IF strategy_info.strategy = "multi_pass"
    THEN GenerateMultiPassPrompts(config, ollama, content, errs)
    ELSE {<<[prompt |-> prompt,
             pass_number |-> 1,
             pass_type |-> "comprehensive",
             error_count |-> Len(errs),
             focus |-> "Comprehensive style improvements",
             strategy |-> strategy_info.strategy]>> :
          prompt \in GeneratePrompt(config, ollama, content, errs)}

-----------------------------------------------------------------------------
(* generate_self_review_prompt, lines 248-272 *)

\* the lists a set can be iterated as
RECURSIVE Listings(_)
Listings(S) ==
    IF S = {} THEN {<<>>}
    ELSE UNION {{<<x>> \o rest : rest \in Listings(S \ {x})} : x \in S}

\* the text whose rewrite is reviewed
FirstRewrite == Blob("first_rewrite", 110)

\* generate_self_review_prompt: every prompt it can return
GenerateSelfReviewPrompt(first_rewrite, original_errors) ==
    LET error_types == [i \in DOMAIN original_errors |->
                            Get(original_errors[i], "type", "")]
    IN  {[template |-> "self_review",
          first_rewrite |-> first_rewrite,
          error_summary |-> Join(Lit(", "), [i \in DOMAIN l |-> Lit(l[i])])] :
         l \in Listings(Range(error_types))}

-----------------------------------------------------------------------------
(* The composer as a state machine *)

NoLocals ==
    [priority_groups |-> EmptyGroups, prioritized_errors |-> <<>>,
     order |-> <<>>, i |-> 0, st |-> LoopStart]

NoResult == <<>>

\* no AIRewriter is in play
NoRewrite ==
    [progress_callback |-> FALSE, content |-> <<>>, pass_number |-> 0,
     calls |-> <<>>, raised |-> <<>>, line |-> <<>>]

\* PromptGenerator.__init__ (lines 29-31)
Construct ==
    /\ pc = "new"
    /\ prompt_config' = LoadPromptConfig(style_guide_dir)
    /\ pc' = "idle"
    /\ UNCHANGED <<rw, style_guide_dir, use_ollama, op, errors, gp, result>>

\* generate_prompt up to its loop (lines 69-129)
CallGeneratePrompt ==
    /\ pc = "idle"
    /\ \E errs \in ErrorLists :
        /\ errors' = errs
        /\ op' = "generate_prompt"
        /\ IF IsEmptyDict(prompt_config)
           THEN /\ result' = GenericPrompt(Content)
                /\ gp' = NoLocals
                /\ pc' = "done"
           ELSE /\ gp' = LocalsAtLoop(errs)
                /\ result' = NoResult
                /\ pc' = "loop"
    /\ UNCHANGED <<rw, style_guide_dir, prompt_config, use_ollama>>

\* the loop with specific_instructions bound to the rule's own legacy
\* `instructions` list, which the iteration then extends in place
LoopStepExtendingConfig ==
    /\ pc = "loop"
    /\ gp.i <= Len(gp.order)
    /\ ~gp.st.stopped
    /\ \E ex \in ExampleChoices(gp.order[gp.i]) :
        LET error_type == gp.order[gp.i].error_type
            rule_config == Get(prompt_config, error_type, EmptyDict)
            after == ProcessType(prompt_config, gp.st, gp.order[gp.i], ex)
        IN  /\ gp' = [gp EXCEPT !.st = after, !.i = @ + 1]
            /\ prompt_config' =
                  IF ~IsEmptyDict(rule_config) /\ "instructions" \in DOMAIN rule_config
                  THEN [prompt_config EXCEPT ![error_type].instructions =
                            after.specific_instructions]
                  ELSE prompt_config
    /\ UNCHANGED <<rw, style_guide_dir, use_ollama, pc, op, errors, result>>

\* one iteration of the loop of lines 131-208
LoopStep ==
    /\ pc = "loop"
    /\ gp.i <= Len(gp.order)
    /\ ~gp.st.stopped
    /\ \E ex \in ExampleChoices(gp.order[gp.i]) :
        gp' = [gp EXCEPT !.st = ProcessType(prompt_config, gp.st, gp.order[gp.i], ex),
                         !.i = @ + 1]
    /\ UNCHANGED <<rw, style_guide_dir, prompt_config, use_ollama, pc, op, errors, result>>

\* generate_prompt after its loop (lines 210-246)
LoopEnd ==
    /\ pc = "loop"
    /\ gp.i > Len(gp.order) \/ gp.st.stopped
    /\ result' = FinishPrompt(use_ollama, Content, errors, gp.order, gp.st)
    /\ pc' = "done"
    /\ UNCHANGED <<rw, style_guide_dir, prompt_config, use_ollama, op, errors, gp>>

CallGenerateMultiPassPrompts ==
    /\ pc = "idle"
    /\ \E errs \in ErrorLists :
        /\ errors' = errs
        /\ result' \in GenerateMultiPassPrompts(prompt_config, use_ollama, Content, errs)
    /\ op' = "generate_multi_pass_prompts"
    /\ pc' = "done"
    /\ UNCHANGED <<rw, style_guide_dir, prompt_config, use_ollama, gp>>

StrategyCall(errs) ==
    /\ errors' = errs
    /\ result' = GetOptimalProcessingStrategy(errs)
    /\ op' = "get_optimal_processing_strategy"
    /\ pc' = "done"
    /\ UNCHANGED <<rw, style_guide_dir, prompt_config, use_ollama, gp>>

CallGetOptimalProcessingStrategy ==
    /\ pc = "idle"
    /\ \E errs \in ErrorLists : StrategyCall(errs)

CallGenerateOptimalPrompts ==
    /\ pc = "idle"
    /\ \E errs \in ErrorLists :
        /\ errors' = errs
        /\ result' \in GenerateOptimalPrompts(prompt_config, use_ollama, Content, errs)
    /\ op' = "generate_optimal_prompts"
    /\ pc' = "done"
    /\ UNCHANGED <<rw, style_guide_dir, prompt_config, use_ollama, gp>>

CallGenerateSelfReviewPrompt ==
    /\ pc = "idle"
    /\ \E errs \in ErrorLists :
        /\ errors' = errs
        /\ result' \in GenerateSelfReviewPrompt(FirstRewrite, errs)
    /\ op' = "generate_self_review_prompt"
    /\ pc' = "done"
    /\ UNCHANGED <<rw, style_guide_dir, prompt_config, use_ollama, gp>>

\* the call returns; the composer keeps nothing of it
Return ==
    /\ pc = "done"
    /\ pc' = "idle"
    /\ op' = ""
    /\ errors' = <<>>
    /\ gp' = NoLocals
    /\ result' = NoResult
    /\ UNCHANGED <<rw, style_guide_dir, prompt_config, use_ollama>>

\* the constructor arguments of the composers whose calls are explored
Composers ==
    {[dir |-> d, ollama |-> TRUE] : d \in StyleGuides}
    \cup {[dir |-> [exists |-> TRUE, files |-> <<FileCore, FileExtra>>], ollama |-> FALSE]}

\* a composer constructed from one of the style guides, serving calls
Init ==
    /\ \E c \in Composers :
        /\ style_guide_dir = c.dir
        /\ use_ollama = c.ollama
    /\ prompt_config = LoadPromptConfig(style_guide_dir)
    /\ pc = "idle"
    /\ op = ""
    /\ errors = <<>>
    /\ gp = NoLocals
    /\ result = NoResult
    /\ rw = NoRewrite

Next ==
    \/ CallGeneratePrompt
    \/ LoopStep
    \/ LoopEnd
    \/ CallGenerateMultiPassPrompts
    \/ CallGetOptimalProcessingStrategy
    \/ CallGenerateOptimalPrompts
    \/ CallGenerateSelfReviewPrompt
    \/ Return

Spec == Init /\ [][Next]_vars

\* construction over every directory
InitLoad ==
    /\ style_guide_dir \in Dirs
    /\ prompt_config = EmptyDict
    /\ use_ollama \in BOOLEAN
    /\ pc = "new"
    /\ op = ""
    /\ errors = <<>>
    /\ gp = NoLocals
    /\ result = NoResult
    /\ rw = NoRewrite

NextLoad == Construct

SpecLoad == InitLoad /\ [][NextLoad]_vars

\* the error types of the large error lists
TypeNames ==
    <<"passive_voice", "verbs", "second_person", "articles", "contractions",
      "hyphens", "numbers", "pronouns_rule", "sentence_length", "word_usage",
      "abbreviations", "anthropomorphism">>

\* total errors over `types` types, the first `high` of severity high, the
\* next `medium` of severity medium, the others of severity low
LargeList(total, types, high, medium) ==
    [k \in 1..total |->
        [type |-> TypeNames[((k - 1) % types) + 1],
         severity |-> IF k <= high THEN "high"
                      ELSE IF k <= high + medium THEN "medium" ELSE "low"]]

LargeShapes ==
    {sh \in (1..MaxTotal) \X (1..MaxTypes) \X (0..MaxTotal) \X (0..MaxTotal) :
        sh[2] <= sh[1] /\ sh[3] + sh[4] <= sh[1]}

LargeLists == {LargeList(sh[1], sh[2], sh[3], sh[4]) : sh \in LargeShapes}

CallStrategyLarge ==
    /\ pc = "idle"
    /\ \E errs \in LargeLists : StrategyCall(errs)

InitStrategy ==
    /\ style_guide_dir = MissingDir
    /\ prompt_config = LoadPromptConfig(style_guide_dir)
    /\ use_ollama = TRUE
    /\ pc = "idle"
    /\ op = ""
    /\ errors = <<>>
    /\ gp = NoLocals
    /\ result = NoResult
    /\ rw = NoRewrite

\* generate_multi_pass_prompts on a large error list
CallMultiPassLarge ==
    /\ pc = "idle"
    /\ \E errs \in LargeLists :
        /\ errors' = errs
        /\ result' \in GenerateMultiPassPrompts(prompt_config, use_ollama, Content, errs)
    /\ op' = "generate_multi_pass_prompts"
    /\ pc' = "done"
    /\ UNCHANGED <<rw, style_guide_dir, prompt_config, use_ollama, gp>>

\* generate_optimal_prompts on a large error list
CallOptimalLarge ==
    /\ pc = "idle"
    /\ \E errs \in LargeLists :
        /\ errors' = errs
        /\ result' \in GenerateOptimalPrompts(prompt_config, use_ollama, Content, errs)
    /\ op' = "generate_optimal_prompts"
    /\ pc' = "done"
    /\ UNCHANGED <<rw, style_guide_dir, prompt_config, use_ollama, gp>>

NextStrategy ==
    \/ CallGetOptimalProcessingStrategy
    \/ CallStrategyLarge
    \/ CallGenerateMultiPassPrompts
    \/ CallMultiPassLarge
    \/ CallGenerateOptimalPrompts
    \/ CallOptimalLarge
    \/ Return

SpecStrategy == InitStrategy /\ [][NextStrategy]_vars

-----------------------------------------------------------------------------
(* _get_dominant_fix_strategy on its own *)

\* the error records the fix strategy is computed for: without fix options,
\* with an empty list of them, and with options of every type
FixErrorRecords ==
    { [type |-> "verbs"],
      [type |-> "verbs", fix_options |-> <<>>],
      [type |-> "verbs", fix_options |-> <<FixQuick>>],
      [type |-> "verbs", fix_options |-> <<FixComprehensive>>],
      [type |-> "verbs", fix_options |-> <<FixQuick, FixComprehensive>>],
      [type |-> "verbs", fix_options |-> <<FixComprehensive, FixManual, FixComprehensive>>],
      [type |-> "verbs", fix_options |-> <<FixNoSuggestions, [suggestions |-> <<>>]>>] }

FixErrorLists == SeqsUpTo(FixErrorRecords, MaxErrors)

CallGetDominantFixStrategy ==
    /\ pc = "idle"
    /\ \E errs \in FixErrorLists :
        /\ errors' = errs
        /\ result' = GetDominantFixStrategy(errs)
    /\ op' = "_get_dominant_fix_strategy"
    /\ pc' = "done"
    /\ UNCHANGED <<rw, style_guide_dir, prompt_config, use_ollama, gp>>

InitFix ==
    /\ style_guide_dir \in StyleGuides
    /\ prompt_config = LoadPromptConfig(style_guide_dir)
    /\ use_ollama = TRUE
    /\ pc = "idle"
    /\ op = ""
    /\ errors = <<>>
    /\ gp = NoLocals
    /\ result = NoResult
    /\ rw = NoRewrite

NextFix ==
    \/ CallGetDominantFixStrategy
    \/ Return

SpecFix == InitFix /\ [][NextFix]_vars

-----------------------------------------------------------------------------
(* AIRewriter: src/rewriter/core.py.  The text generator, the assembly     *)
(* line, the evaluator and the progress callback are collaborators the     *)
(* rewriter is handed: a call to one of them returns any of its outcomes   *)
(* or raises.  A confidence is written in hundredths.                      *)

\* str.strip(): whitespace is a chunk whose id is " "
RECURSIVE LStrip(_)
LStrip(text) == IF text # <<>> /\ Head(text).id = " " THEN LStrip(Tail(text)) ELSE text

RECURSIVE RStrip(_)
RStrip(text) ==
    IF text # <<>> /\ text[Len(text)].id = " "
    THEN RStrip(SubSeq(text, 1, Len(text) - 1))
    ELSE text

Strip(text) == RStrip(LStrip(text))

\* the contents rewrite is called on: "", whitespace only, a text, and a
\* text with whitespace around it
Contents ==
    { <<>>, Blob(" ", 3), Content, Blob(" ", 2) \o Content \o Blob(" ", 1) }

\* the error lists rewrite is called on
RewriteErrorLists ==
    SeqsUpTo({ [type |-> "passive_voice", severity |-> "medium"],
               [type |-> "verbs"] }, MaxErrors)

\* 1 for the initial rewrite, 2 for the refinement
PassNumbers == {1, 2}

\* line 57:  not content or not content.strip()
IsBlank(content) == ~Truthy(content) \/ ~Truthy(Strip(content))

\* the short circuit taken whatever the pass
ShortCircuitsAnyPass(errs, pass_number) == errs = <<>>

\* line 65:  not errors and pass_number == 1
ShortCircuits(errs, pass_number) == errs = <<>> /\ pass_number = 1

\* the return of lines 58-63
NoContentResult ==
    [rewritten_text |-> <<>>, improvements |-> <<>>, confidence |-> 0,
     error |-> Lit("No content provided")]

\* the return of lines 66-70
NoErrorsResult(content) ==
    [rewritten_text |-> content, improvements |-> <<Lit("No errors detected")>>,
     confidence |-> 100]

\* the return of lines 74-79
UnavailableResult(content) ==
    [rewritten_text |-> content, improvements |-> <<>>, confidence |-> 0,
     error |-> Lit("AI models are not available. Please check your model configuration.")]

\* the handler returns without the text it was given
ExceptionResultNoText(content, e) ==
    [rewritten_text |-> <<>>, improvements |-> <<>>, confidence |-> 0,
     error |-> Lit("AI rewrite failed: ") \o e]

\* the return of the handler, lines 89-94
ExceptionResult(content, e) ==
    [rewritten_text |-> content, improvements |-> <<>>, confidence |-> 0,
     error |-> Lit("AI rewrite failed: ") \o e]

\* what self.text_generator.is_available() can do
AvailabilityOutcomes ==
    { [kind |-> "returns", value |-> TRUE],
      [kind |-> "returns", value |-> FALSE],
      [kind |-> "raises", e |-> Blob("connection refused", 18)] }

\* what self.progress_callback(...) can do
CallbackOutcomes ==
    { [kind |-> "returns"],
      [kind |-> "raises", e |-> Blob("socket closed", 13)] }

\* what self.assembly_line.apply_assembly_line_fixes(...) can do: raise,
\* return None, or return a dict, with or without the key assembly_line_used
\* and the key rewritten_text
AssemblyOutcomes ==
    { [kind |-> "raises", e |-> Blob("generation failed", 17)],
      [kind |-> "none"],
      [kind |-> "returns",
       value |-> [rewritten_text |-> Blob("rewritten", 115),
                  improvements |-> <<Blob("line_improvement", 20)>>,
                  confidence |-> 85, assembly_line_used |-> TRUE,
                  errors_fixed |-> 1, original_errors |-> 1]],
      [kind |-> "returns",
       value |-> [rewritten_text |-> Blob("untouched", 120), improvements |-> <<>>,
                  confidence |-> 0, assembly_line_used |-> FALSE,
                  error |-> Blob("line_error", 12)]],
      [kind |-> "returns",
       value |-> [rewritten_text |-> Blob("legacy", 100), improvements |-> <<>>,
                  confidence |-> 50]],
      [kind |-> "returns",
       value |-> [assembly_line_used |-> TRUE, errors_fixed |-> 0]] }

\* what self.evaluator.extract_improvements(...) can do
EvaluatorOutcomes ==
    { [kind |-> "returns", value |-> <<>>],
      [kind |-> "returns", value |-> <<Blob("improvement_1", 25), Blob("improvement_2", 25)>>],
      [kind |-> "raises", e |-> Blob("diff failed", 11)] }

\* the exception messages of rewrite's own subscripts and attribute reads
KeyErrorText == Lit("'rewritten_text'")

AttributeErrorText == Lit("'NoneType' object has no attribute 'get'")

\* the call returns res
Returns(res) == result' = res /\ pc' = "done"

\* an exception with message e is raised at a step of rewrite: every step
\* is inside the try of lines 56-86, whose handler (lines 87-94) returns
Raises(e) ==
    /\ result' = ExceptionResult(rw.content, e)
    /\ pc' = "done"

\* rewrite up to the availability check (lines 56-70)
Rewrite(content, errs, pass_number) ==
    /\ pc = "idle"
    /\ errors' = errs
    /\ rw' = [rw EXCEPT !.content = content, !.pass_number = pass_number,
                        !.calls = <<>>, !.raised = <<>>, !.line = <<>>]
    /\ IF IsBlank(content) THEN Returns(NoContentResult)
       ELSE IF ShortCircuits(errs, pass_number) THEN Returns(NoErrorsResult(content))
       ELSE result' = NoResult /\ pc' = "available"
    /\ UNCHANGED <<style_guide_dir, prompt_config, use_ollama, gp>>

CallRewrite ==
    \E content \in Contents, errs \in RewriteErrorLists, pass_number \in PassNumbers :
        /\ op' = "rewrite"
        /\ Rewrite(content, errs, pass_number)

\* refine: rewrite with pass_number=2 (lines 162-167)
CallRefine ==
    \E content \in Contents, errs \in RewriteErrorLists :
        /\ op' = "refine"
        /\ Rewrite(content, errs, 2)

\* lines 73-79
CheckAvailable ==
    /\ pc = "available"
    /\ \E o \in AvailabilityOutcomes :
        IF o.kind = "raises"
        THEN /\ rw' = [rw EXCEPT !.calls = Append(@, "is_available"), !.raised = o.e]
             /\ Raises(o.e)
        ELSE /\ rw' = [rw EXCEPT !.calls = Append(@, "is_available")]
             /\ IF o.value
                THEN result' = result /\ pc' = "start"
                ELSE Returns(UnavailableResult(rw.content))
    /\ UNCHANGED <<style_guide_dir, prompt_config, use_ollama, op, errors, gp>>

\* the callback before the fixes: lines 101-103, and 132-134 for pass 2
AssemblyStart ==
    /\ pc = "start"
    /\ IF rw.progress_callback
       THEN \E o \in CallbackOutcomes :
               IF o.kind = "raises"
               THEN /\ rw' = [rw EXCEPT !.calls = Append(@, "progress_callback"),
                                        !.raised = o.e]
                    /\ Raises(o.e)
               ELSE /\ rw' = [rw EXCEPT !.calls = Append(@, "progress_callback")]
                    /\ result' = result /\ pc' = "fixes"
       ELSE UNCHANGED rw /\ result' = result /\ pc' = "fixes"
    /\ UNCHANGED <<style_guide_dir, prompt_config, use_ollama, op, errors, gp>>

\* lines 106-108 and 125, and 141-143 and 160 for pass 2
ApplyFixes ==
    /\ pc = "fixes"
    /\ \E o \in AssemblyOutcomes :
        LET called == Append(rw.calls, "apply_assembly_line_fixes") IN
        CASE o.kind = "raises" ->
                /\ rw' = [rw EXCEPT !.calls = called, !.raised = o.e]
                /\ Raises(o.e)
          [] o.kind = "none" ->
                /\ rw' = [rw EXCEPT !.calls = called, !.raised = AttributeErrorText]
                /\ Raises(AttributeErrorText)
          [] o.kind = "returns" ->
                IF "assembly_line_used" \in DOMAIN o.value /\ o.value.assembly_line_used
                THEN /\ rw' = [rw EXCEPT !.calls = called, !.line = o.value]
                     /\ result' = result /\ pc' = "evaluate"
                ELSE /\ rw' = [rw EXCEPT !.calls = called]
                     /\ Returns(o.value)
    /\ UNCHANGED <<style_guide_dir, prompt_config, use_ollama, op, errors, gp>>

\* lines 110-117, and 145-152 for pass 2
Evaluate ==
    /\ pc = "evaluate"
    /\ IF "rewritten_text" \notin DOMAIN rw.line
       THEN /\ rw' = [rw EXCEPT !.raised = KeyErrorText]
            /\ Raises(KeyErrorText)
       ELSE \E o \in EvaluatorOutcomes :
               LET called == Append(rw.calls, "extract_improvements") IN
               IF o.kind = "raises"
               THEN /\ rw' = [rw EXCEPT !.calls = called, !.raised = o.e]
                    /\ Raises(o.e)
               ELSE /\ rw' = [rw EXCEPT !.calls = called,
                        !.line = Update(
                            IF o.value # <<>> THEN Update(@, [improvements |-> o.value])
                            ELSE @,
                            [pass_number |-> IF rw.pass_number = 1 THEN 1 ELSE 2,
                             can_refine |-> rw.pass_number = 1,
                             model_used |-> IF use_ollama THEN Lit("llama3:8b")
                                            ELSE Lit("hf_transformers")])]
                    /\ result' = result /\ pc' = "complete"
    /\ UNCHANGED <<style_guide_dir, prompt_config, use_ollama, op, errors, gp>>

\* the callback after the fixes and the return: lines 121-125, and 156-160
AssemblyComplete ==
    /\ pc = "complete"
    /\ IF rw.progress_callback
       THEN \E o \in CallbackOutcomes :
               IF o.kind = "raises"
               THEN /\ rw' = [rw EXCEPT !.calls = Append(@, "progress_callback"),
                                        !.raised = o.e]
                    /\ Raises(o.e)
               ELSE /\ rw' = [rw EXCEPT !.calls = Append(@, "progress_callback")]
                    /\ Returns(rw.line)
       ELSE UNCHANGED rw /\ Returns(rw.line)
    /\ UNCHANGED <<style_guide_dir, prompt_config, use_ollama, op, errors, gp>>

\* the caller has the result; the rewriter keeps nothing of the call
RewriteReturn ==
    /\ pc = "done"
    /\ pc' = "idle"
    /\ op' = ""
    /\ errors' = <<>>
    /\ result' = NoResult
    /\ rw' = [NoRewrite EXCEPT !.progress_callback = rw.progress_callback]
    /\ UNCHANGED <<style_guide_dir, prompt_config, use_ollama, gp>>

\* AIRewriter.__init__ (lines 22-40): with or without a progress callback,
\* for Ollama or for Hugging Face models
InitRewrite ==
    /\ style_guide_dir = MissingDir
    /\ prompt_config = EmptyDict
    /\ use_ollama \in BOOLEAN
    /\ pc = "idle"
    /\ op = ""
    /\ errors = <<>>
    /\ gp = NoLocals
    /\ result = NoResult
    /\ \E callback \in BOOLEAN : rw = [NoRewrite EXCEPT !.progress_callback = callback]

NextRewrite ==
    \/ CallRewrite
    \/ CallRefine
    \/ CheckAvailable
    \/ AssemblyStart
    \/ ApplyFixes
    \/ Evaluate
    \/ AssemblyComplete
    \/ RewriteReturn

SpecRewrite == InitRewrite /\ [][NextRewrite]_vars

-----------------------------------------------------------------------------
(* The claims *)

\* generate_prompt is in or past its loop, with a rule config loaded
InGeneratePrompt ==
    /\ op = "generate_prompt"
    /\ pc \in {"loop", "done"}
    /\ ~IsEmptyDict(prompt_config)

\* a group is critical: a member of severity high or urgent, or an allowlisted type
CriticalGroup(g) ==
    \/ \E i \in DOMAIN g.error_list :
          /\ "severity" \in DOMAIN g.error_list[i]
          /\ g.error_list[i].severity \in {"high", "urgent"}
    \/ g.error_type \in {"inclusive_language", "second_person", "legal_claims",
                         "unsupported_claims", "fabrication_risk"}

\* the tier of a severity that is given: high->urgent, medium->high,
\* low->medium, anything else->medium
TierOfSeverity(severity) ==
    CASE severity = "high" -> "urgent"
      [] severity = "medium" -> "high"
      [] OTHER -> "medium"

\* the tier of an error, a missing severity going to medium
TierMissingToMedium(error) ==
    IF "severity" \in DOMAIN error THEN TierOfSeverity(error.severity) ELSE "medium"

\* the tier of an error, a missing severity counting as severity medium (tier high)
TierMissingToHigh(error) ==
    IF "severity" \in DOMAIN error THEN TierOfSeverity(error.severity) ELSE "high"

\* the buckets of generate_prompt partition its errors by Tier, in input order,
\* and the priority-ordered sequence is their concatenation
PartitionedBy(Tier(_)) ==
    /\ \A t \in {"urgent", "high", "medium", "low"} :
          gp.priority_groups[t] = SelectSeq(errors, LAMBDA e : Tier(e) = t)
    /\ SeqToBag(gp.priority_groups.urgent \o gp.priority_groups.high
                \o gp.priority_groups.medium \o gp.priority_groups.low)
          = SeqToBag(errors)
    /\ gp.prioritized_errors =
          gp.priority_groups.urgent \o gp.priority_groups.high
          \o gp.priority_groups.medium \o gp.priority_groups.low

(* C1: in generate_prompt, an iteration of the loop on a non-critical type  *)
(* that starts with the running character count at most 1500 ends with it  *)
(* at most 1500.                                                            *)
C1_NonCriticalStaysWithinCeiling ==
    [][ ( /\ pc = "loop" /\ pc' = "loop"
          /\ gp'.i = gp.i + 1
          /\ ~CriticalGroup(gp.order[gp.i])
          /\ gp.st.current_prompt_length <= MAX_PROMPT_LENGTH )
        => gp'.st.current_prompt_length <= MAX_PROMPT_LENGTH ]_vars

(* C3, as claimed: the four buckets partition the errors, an error of       *)
(* severity high in urgent, medium in high, low in medium, and of any other *)
(* or of no severity in medium; the priority-ordered sequence is            *)
(* urgent, high, medium, low in input order.                                *)
C3_PartitionMissingToMedium == InGeneratePrompt => PartitionedBy(TierMissingToMedium)

(* C3, amended: the same partition, except that an error with no severity   *)
(* field counts as severity medium and so goes to the bucket high.          *)
C3_PartitionMissingToHigh == InGeneratePrompt => PartitionedBy(TierMissingToHigh)

C3_Witness ==
    /\ InGeneratePrompt
    /\ \E i \in DOMAIN errors : "severity" \notin DOMAIN errors[i]
    /\ \E i \in DOMAIN errors :
          "severity" \in DOMAIN errors[i] /\ errors[i].severity = "urgent"
    /\ gp.priority_groups.urgent # <<>>
    /\ gp.priority_groups.high # <<>>
    /\ gp.priority_groups.medium # <<>>

(* C4: in the processing order of generate_prompt no non-critical group     *)
(* comes before a critical group, and the order holds every error type of   *)
(* the input exactly once.                                                  *)
C4_CriticalGroupsFirst ==
    InGeneratePrompt =>
        /\ \A i, j \in DOMAIN gp.order :
              (i < j /\ CriticalGroup(gp.order[j])) => CriticalGroup(gp.order[i])
        /\ {gp.order[i].error_type : i \in DOMAIN gp.order}
              = {ErrorType(errors[i]) : i \in DOMAIN errors}
        /\ \A i, j \in DOMAIN gp.order :
              gp.order[i].error_type = gp.order[j].error_type => i = j

\* the first error of the priority-ordered sequence is of a non-critical
\* group, and a critical group is processed before it
C4_Witness ==
    /\ InGeneratePrompt
    /\ Len(gp.order) >= 2
    /\ CriticalGroup(gp.order[1])
    /\ ErrorType(gp.prioritized_errors[1]) = gp.order[Len(gp.order)].error_type
    /\ ~CriticalGroup(gp.order[Len(gp.order)])

\* `parts` is a run of consecutive elements of `list`
RunIn(parts, list) ==
    \E k \in 0..(Len(list) - Len(parts)) :
        \A j \in DOMAIN parts : list[k + j] = parts[j]

Bulleted(instructions) ==
    [i \in DOMAIN instructions |-> Lit("- ") \o instructions[i]]

\* the critical groups of the processing order whose type has a rule config
CriticalWithConfig ==
    {i \in DOMAIN gp.order :
        /\ CriticalGroup(gp.order[i])
        /\ ~IsEmptyDict(Get(prompt_config, gp.order[i].error_type, EmptyDict))}

(* C5: when generate_prompt returns, the instruction parts of every         *)
(* critical type that has a rule config are in the prompt's instruction     *)
(* list, whatever the length assembled and whatever was dropped.            *)
C5_CriticalNeverSkipped ==
    (InGeneratePrompt /\ pc = "done") =>
        \A i \in CriticalWithConfig :
            RunIn(Bulleted(InstructionParts(prompt_config[gp.order[i].error_type])),
                  result.instructions)

\* two critical types are included, the count is past the ceiling and a
\* non-critical type was dropped
C5_Witness ==
    /\ InGeneratePrompt /\ pc = "done"
    /\ Cardinality(CriticalWithConfig) >= 2
    /\ \A i \in CriticalWithConfig :
          InstructionParts(prompt_config[gp.order[i].error_type]) # <<>>
    /\ gp.st.current_prompt_length > MAX_PROMPT_LENGTH
    /\ gp.st.stopped

\* the strategy selector has returned for a non-empty error list
StrategyReturned ==
    /\ pc = "done"
    /\ op = "get_optimal_processing_strategy"
    /\ errors # <<>>

Total == Len(errors)

DistinctTypes ==
    Cardinality({IF "type" \in DOMAIN errors[i] THEN errors[i].type ELSE "unknown" :
                    i \in DOMAIN errors})

TierCount(t) == Cardinality({i \in DOMAIN errors : TierMissingToHigh(errors[i]) = t})

NonEmptyTierCount ==
    Cardinality({t \in {"urgent", "high", "medium", "low"} : TierCount(t) > 0})

EstimatedLength == 300 + 80 * DistinctTypes + 20 * Total

Clamp(x, lo, hi) == IF x < lo THEN lo ELSE IF x > hi THEN hi ELSE x

(* C2: for a non-empty error list get_optimal_processing_strategy returns   *)
(* the outcome of the ordered rule: (2) total<=15, types<=5 and estimated   *)
(* length<=1500: single_pass, 1 pass; else (3) urgent tier and another tier *)
(* non-empty: multi_pass, one pass per non-empty tier; else (4) total>20 or *)
(* types>8: multi_pass, clamp(types div 3, 2, 3) passes; else (5)           *)
(* single_pass_smart, 1 pass.  25 errors over 10 types with no urgent error *)
(* give multi_pass with 3 passes; 3 errors of one type, all of severity     *)
(* low, give single_pass.                                                   *)
C2_StrategyDecisionRule ==
    StrategyReturned =>
        /\ IF Total <= 15 /\ DistinctTypes <= 5 /\ EstimatedLength <= 1500
           THEN result.strategy = "single_pass" /\ result.passes = 1
           ELSE IF TierCount("urgent") > 0 /\ NonEmptyTierCount > 1
           THEN result.strategy = "multi_pass" /\ result.passes = NonEmptyTierCount
           ELSE IF Total > 20 \/ DistinctTypes > 8
           THEN /\ result.strategy = "multi_pass"
                /\ result.passes = Clamp(DistinctTypes \div 3, 2, 3)
           ELSE result.strategy = "single_pass_smart" /\ result.passes = 1
        /\ (Total = 25 /\ DistinctTypes = 10 /\ TierCount("urgent") = 0)
              => (result.strategy = "multi_pass" /\ result.passes = 3)
        /\ ( /\ Total = 3 /\ DistinctTypes = 1
             /\ \A i \in DOMAIN errors :
                   "severity" \in DOMAIN errors[i] /\ errors[i].severity = "low" )
              => result.strategy = "single_pass"

\* 25 errors over 10 types, none in the urgent tier: rule 4 decides
C2_Witness ==
    /\ StrategyReturned
    /\ Total = 25 /\ DistinctTypes = 10 /\ TierCount("urgent") = 0
    /\ result.strategy = "multi_pass" /\ result.passes = 3

\* generate_multi_pass_prompts has returned for a non-empty error list
MultiPassReturned ==
    /\ pc = "done"
    /\ op = "generate_multi_pass_prompts"
    /\ errors # <<>>

\* the non-empty tiers, in the order urgent, high, medium, low
NonEmptyTiers == SelectSeq(PriorityOrder, LAMBDA t : TierCount(t) > 0)

(* C6: for a non-empty error list generate_multi_pass_prompts returns one   *)
(* PassPlan per non-empty tier, in the order urgent, high, medium, low, and *)
(* the i-th plan has pass_number i.                                         *)
C6_OnePassPerTierDenseNumbers ==
    MultiPassReturned =>
        /\ Len(result) = Len(NonEmptyTiers)
        /\ \A i \in DOMAIN result :
              /\ result[i].pass_type = NonEmptyTiers[i]
              /\ result[i].pass_number = i

\* the urgent tier is empty and two later tiers are not
C6_Witness ==
    /\ MultiPassReturned
    /\ TierCount("urgent") = 0
    /\ Len(result) = 2
    /\ result[1].pass_type = "high" /\ result[1].pass_number = 1
    /\ result[2].pass_type = "medium" /\ result[2].pass_number = 2

RECURSIVE SumErrorCounts(_)
SumErrorCounts(passes) ==
    IF passes = <<>> THEN 0
    ELSE Head(passes).error_count + SumErrorCounts(Tail(passes))

(* C7: for a non-empty error list the error_count values of the passes      *)
(* generate_multi_pass_prompts returns sum to the number of input errors,   *)
(* and each pass's error_count is the size of its tier.                     *)
C7_NoErrorLeftBehind ==
    MultiPassReturned =>
        /\ SumErrorCounts(result) = Len(errors)
        /\ \A i \in DOMAIN result :
              result[i].error_count = TierCount(result[i].pass_type)

\* three errors over three passes, one of them of no known severity
C7_Witness ==
    /\ MultiPassReturned
    /\ Len(errors) = 3
    /\ Len(result) >= 2
    /\ \E i \in DOMAIN errors :
          "severity" \in DOMAIN errors[i] /\ errors[i].severity = "urgent"
    /\ \E i \in DOMAIN result : result[i].error_count = 2

\* the rule config of group number k of the processing order defines a
\* non-empty primary_command
DefinesCommand(k) ==
    LET rule_config == Get(prompt_config, gp.order[k].error_type, EmptyDict) IN
    /\ "primary_command" \in DOMAIN rule_config
    /\ TextLen(rule_config.primary_command) > 0

\* the groups the loop has come to, the one it stopped at included
Reached == 1..(gp.i - 1)

ReturnedOnEmpty == pc = "done" /\ errors = <<>>

\* what generate_prompt returns for no errors
PromptForNoErrors ==
    IF IsEmptyDict(prompt_config)
    THEN [template |-> "generic", content |-> Content]
    ELSE [template |-> IF use_ollama THEN "ollama_v3" ELSE "hf_v3",
          primary_command |-> <<>>,
          instructions |-> Bulleted(FallbackInstructions),
          fix_options |-> <<>>,
          content |-> Content]

(* C9: called with the empty error list and any loaded config, every entry  *)
(* point returns a result: generate_prompt a prompt (the generic one, or    *)
(* the template with the two generic instructions), the two pass generators *)
(* one pass with pass_number 1 and error_count 0, the self review prompt an *)
(* empty list of issues, and get_optimal_processing_strategy the strategy   *)
(* single_pass with passes 1.                                               *)
C9_EmptyErrorListTolerated ==
    ReturnedOnEmpty =>
        /\ op = "generate_prompt" => result = PromptForNoErrors
        /\ op = "generate_multi_pass_prompts" =>
              /\ Len(result) = 1
              /\ result[1].pass_number = 1 /\ result[1].error_count = 0
              /\ result[1].prompt = [template |-> "generic", content |-> Content]
        /\ op = "generate_optimal_prompts" =>
              /\ Len(result) = 1
              /\ result[1].pass_number = 1 /\ result[1].error_count = 0
              /\ result[1].strategy = "single_pass"
              /\ result[1].prompt = PromptForNoErrors
        /\ op = "get_optimal_processing_strategy" =>
              result.strategy = "single_pass" /\ result.passes = 1
        /\ op = "generate_self_review_prompt" =>
              /\ result.first_rewrite = FirstRewrite
              /\ result.error_summary = <<>>

\* generate_optimal_prompts returned for no errors, with a rule config loaded
C9_Witness ==
    /\ ReturnedOnEmpty
    /\ op = "generate_optimal_prompts"
    /\ ~IsEmptyDict(prompt_config)
    /\ Len(result) = 1

\* the loader opens files with these extensions only
Recognized(f) == f.ext = ".yaml" \/ f.ext = ".yml"

\* reading or parsing the file fails
FailsToLoad(f) == Recognized(f) /\ f.kind \in {"unreadable", "malformed"}

\* the `rules` section a file contributes
RulesOf(f) ==
    IF Recognized(f) /\ f.kind = "parsed" /\ "rules" \in DOMAIN f.config
    THEN f.config.rules ELSE EmptyDict

\* the key-overwrite merge of the rules sections of all files: each key has
\* the value of the last file that defines it
IsMergeOfAll(config, files) ==
    /\ DOMAIN config = UNION {DOMAIN RulesOf(files[i]) : i \in DOMAIN files}
    /\ \A k \in DOMAIN config :
          LET defining == {i \in DOMAIN files : k \in DOMAIN RulesOf(files[i])}
              last == CHOOSE i \in defining : \A j \in defining : j <= i
          IN  config[k] = RulesOf(files[last])[k]

(* C10: after construction prompt_config is the empty mapping when the      *)
(* directory is missing or when reading or parsing any recognized file      *)
(* fails, and otherwise the key-overwrite merge of every file's rules.      *)
C10_LoadAllOrNothing ==
    pc = "idle" =>
        IF \/ ~style_guide_dir.exists
           \/ \E i \in DOMAIN style_guide_dir.files : FailsToLoad(style_guide_dir.files[i])
        THEN IsEmptyDict(prompt_config)
        ELSE IsMergeOfAll(prompt_config, style_guide_dir.files)

\* a file with rules was read before the file that fails
C10_Witness ==
    /\ pc = "idle"
    /\ style_guide_dir.exists
    /\ Len(style_guide_dir.files) >= 2
    /\ ~IsEmptyDict(RulesOf(style_guide_dir.files[1]))
    /\ FailsToLoad(style_guide_dir.files[2])
    /\ IsEmptyDict(prompt_config)

\* _get_dominant_fix_strategy has returned
FixStrategyReturned == pc = "done" /\ op = "_get_dominant_fix_strategy"

\* the fix options of type t over all errors, each named by the position of
\* its error and its own position
OptionsOfType(t) ==
    UNION {{<<i, j>> : j \in {k \in DOMAIN errors[i].fix_options :
                                /\ "type" \in DOMAIN errors[i].fix_options[k]
                                /\ errors[i].fix_options[k].type = t}} :
           i \in {n \in DOMAIN errors : "fix_options" \in DOMAIN errors[n]}}

(* C11: _get_dominant_fix_strategy returns `comprehensive` when the options *)
(* of type comprehensive over all errors outnumber those of type quick,     *)
(* `targeted` when they are fewer and `balanced` when the counts are equal; *)
(* it returns `balanced` when no error carries fix_options.                 *)
C11_DominantFixStrategy ==
    FixStrategyReturned =>
        LET quick == Cardinality(OptionsOfType("quick"))
            comprehensive == Cardinality(OptionsOfType("comprehensive"))
        IN  /\ comprehensive > quick => result = "comprehensive"
            /\ comprehensive < quick => result = "targeted"
            /\ comprehensive = quick => result = "balanced"
            /\ (\A i \in DOMAIN errors : "fix_options" \notin DOMAIN errors[i])
                  => result = "balanced"

\* options of both types spread over several errors, more of them comprehensive
C11_Witness ==
    /\ FixStrategyReturned
    /\ Cardinality({i \in DOMAIN errors : "fix_options" \in DOMAIN errors[i]}) >= 2
    /\ Cardinality(OptionsOfType("quick")) = 2
    /\ Cardinality(OptionsOfType("comprehensive")) = 3
    /\ result = "comprehensive"

\* rewrite (or refine, which is rewrite with pass_number 2) is being served
InRewrite == op \in {"rewrite", "refine"}

\* the content of the call has a character that is not whitespace
NonBlank == \E k \in DOMAIN rw.content : rw.content[k].id # " "

(* C12: rewrite with non-blank content, an empty error list and            *)
(* pass_number 1 returns at once, without any collaborator having been     *)
(* called: rewritten_text is the content unchanged, improvements is        *)
(* ['No errors detected'] and confidence is 1.0.  With pass_number 2       *)
(* (refine) the same empty error list does not short-circuit: the call     *)
(* goes on to the availability check.                                      *)
C12_NoErrorsShortCircuit ==
    (InRewrite /\ NonBlank /\ errors = <<>>) =>
        /\ rw.pass_number = 1 =>
              /\ pc = "done"
              /\ rw.calls = <<>>
              /\ result = [rewritten_text |-> rw.content,
                           improvements |-> <<Lit("No errors detected")>>,
                           confidence |-> 100]
        /\ rw.pass_number = 2 =>
              /\ pc = "available" \/ (rw.calls # <<>> /\ rw.calls[1] = "is_available")
              /\ pc = "done" =>
                    result # [rewritten_text |-> rw.content,
                              improvements |-> <<Lit("No errors detected")>>,
                              confidence |-> 100]

\* the short circuit was taken on a text with whitespace around it
C12_Witness ==
    /\ InRewrite /\ pc = "done"
    /\ errors = <<>> /\ rw.pass_number = 1
    /\ NonBlank /\ rw.content[1].id = " "
    /\ rw.calls = <<>>
    /\ result.rewritten_text = rw.content
    /\ result.confidence = 100

\* the content of the call is empty or whitespace only
BlankCall == \A k \in DOMAIN rw.content : rw.content[k].id = " "

(* C19: rewrite never raises.  An exception raised by the availability     *)
(* check, the assembly line, the evaluator or the progress callback (or by *)
(* rewrite's own reads of the assembly line's result) ends the call with a *)
(* result: rewritten_text is the original content, confidence is 0.0,      *)
(* improvements is empty and `error` carries a message.  Blank or empty    *)
(* content is rejected with rewritten_text '' and error 'No content        *)
(* provided' before any collaborator is called.                            *)
C19_RewriteNeverRaises ==
    InRewrite =>
        /\ pc \in {"available", "start", "fixes", "evaluate", "complete", "done"}
        /\ rw.raised # <<>> =>
              /\ pc = "done"
              /\ DOMAIN result = {"rewritten_text", "improvements", "confidence", "error"}
              /\ result.rewritten_text = rw.content
              /\ result.confidence = 0
              /\ result.improvements = <<>>
              /\ TextLen(result.error) > 0
        /\ BlankCall =>
              /\ pc = "done"
              /\ rw.calls = <<>>
              /\ result.rewritten_text = <<>>
              /\ result.error = Lit("No content provided")

\* the progress callback raised after the assembly line and the evaluator
\* had done their work
C19_Witness ==
    /\ InRewrite /\ pc = "done"
    /\ rw.raised # <<>>
    /\ Len(rw.calls) = 5
    /\ rw.calls[5] = "progress_callback"
    /\ result.rewritten_text = rw.content
    /\ "error" \in DOMAIN result

\* generate_prompt has returned a prompt assembled from a rule config
PromptAssembled == InGeneratePrompt /\ pc = "done"

\* the distinct non-empty sentences of the passive voice errors
SentencesOfPassiveErrors ==
    {errors[i].sentence : i \in {k \in DOMAIN errors :
        /\ "type" \in DOMAIN errors[k] /\ errors[k].type = "passive_voice"
        /\ "sentence" \in DOMAIN errors[k]
        /\ TextLen(errors[k].sentence) > 0}}

\* the passive voice example lines of the prompt's instruction list
ExampleLines ==
    SelectSeq(result.instructions,
              LAMBDA line : Len(line) >= 3 /\ line[2] = [id |-> "  Example: '", len |-> 12])

\* what an example line shows between the quote and the `...` marker
Excerpt(line) == SubSeq(line, 3, Len(line) - 1)

\* the first 50 characters of a sentence
First50(sentence) ==
    <<[id |-> sentence[1].id,
       len |-> IF sentence[1].len > 50 THEN 50 ELSE sentence[1].len]>>

\* exactly two example lines, one per sentence, each of at most 50 characters
TwoExampleLines ==
    /\ Len(ExampleLines) = 2
    /\ {Excerpt(ExampleLines[k]) : k \in 1..2}
          = {First50(s) : s \in SentencesOfPassiveErrors}
    /\ \A k \in 1..2 : TextLen(Excerpt(ExampleLines[k])) <= 50

\* passive_voice has a rule config and the loop included it
PassiveVoiceIncluded ==
    /\ ~IsEmptyDict(Get(prompt_config, "passive_voice", EmptyDict))
    /\ \E k \in DOMAIN gp.order :
          /\ gp.order[k].error_type = "passive_voice"
          /\ k < gp.i
          /\ ~(gp.st.stopped /\ k = gp.i - 1)

(* C13, as claimed: when the passive_voice errors given to generate_prompt  *)
(* carry exactly two distinct non-empty sentences, the instruction list has *)
(* exactly two passive voice example lines, one per sentence, each showing  *)
(* at most the first 50 characters of its sentence.                         *)
C13_TwoExamplesAlways ==
    (PromptAssembled /\ Cardinality(SentencesOfPassiveErrors) = 2) => TwoExampleLines

(* C13, amended: the same when passive_voice has a rule config and is not   *)
(* dropped by the length budget; when it is dropped or has no rule config,  *)
(* the instruction list has no passive voice example line.                  *)
C13_TwoExamplesWhenIncluded ==
    (PromptAssembled /\ Cardinality(SentencesOfPassiveErrors) = 2) =>
        IF PassiveVoiceIncluded THEN TwoExampleLines ELSE Len(ExampleLines) = 0

\* a non-critical passive_voice group is included with two sentences, one of
\* them longer than 50 characters, after another type
C13_Witness ==
    /\ PromptAssembled
    /\ Cardinality(SentencesOfPassiveErrors) = 2
    /\ \E s \in SentencesOfPassiveErrors : TextLen(s) > 50
    /\ PassiveVoiceIncluded
    /\ Len(gp.order) >= 2
    /\ \E k \in DOMAIN gp.order :
          gp.order[k].error_type = "passive_voice" /\ ~CriticalGroup(gp.order[k])
    /\ Len(ExampleLines) = 2

(* C14: once the composer is constructed, prompt_config, the lists nested   *)
(* in its rules included, is at every point of every sequence of calls the  *)
(* mapping loaded at construction, and the error records given to a call    *)
(* are the same while the call is served.                                   *)
C14_ConfigReadOnly ==
    /\ [](pc # "new" => prompt_config = LoadPromptConfig(style_guide_dir))
    /\ [][pc = "loop" => errors' = errors]_vars

\* generate_prompt has returned after appending the legacy `instructions`
\* and `examples` lists of a rule to its instruction list
C14_Witness ==
    /\ PromptAssembled
    /\ "verbs" \in DOMAIN prompt_config
    /\ RunIn(Bulleted(prompt_config.verbs.instructions \o prompt_config.verbs.examples),
             result.instructions)
    /\ Len(result.instructions) > Len(prompt_config.verbs.instructions) + 4
    /\ prompt_config = LoadPromptConfig(style_guide_dir)

\* one of the two pass generators has returned its list of PassPlans
PassPlansReturned ==
    pc = "done" /\ op \in {"generate_multi_pass_prompts", "generate_optimal_prompts"}

(* C15: every PassPlan returned by generate_multi_pass_prompts and by       *)
(* generate_optimal_prompts, for any error list, the empty one included,    *)
(* carries the five fields prompt, pass_number, pass_type, error_count and  *)
(* focus.                                                                   *)
C15_PassPlanHasFiveFields ==
    PassPlansReturned =>
        \A i \in DOMAIN result :
            {"prompt", "pass_number", "pass_type", "error_count", "focus"}
                \subseteq DOMAIN result[i]

\* the lines of the fix-option block of the prompt
Block == result.fix_options

\* the errors that carry a non-empty fix_options list
WithOptions ==
    {i \in DOMAIN errors :
        "fix_options" \in DOMAIN errors[i] /\ errors[i].fix_options # <<>>}

\* the header line of an error's type
HeaderLine(error) == Lit("=== ") \o Lit(Upper(ErrorType(error))) \o Lit(" FIXES ===")

SpanOf(d) == IF "text_span" \in DOMAIN d THEN d.text_span ELSE <<>>

SuggestionsOf(option) ==
    IF "suggestions" \in DOMAIN option THEN option.suggestions ELSE <<>>

\* the option is of type quick or comprehensive and has a suggestion
Actionable(option) ==
    /\ "type" \in DOMAIN option /\ option.type \in {"quick", "comprehensive"}
    /\ SuggestionsOf(option) # <<>>

\* the fix line of an actionable option: its strategy, its span, its first suggestion
FixLine(option) ==
    (IF option.type = "quick" THEN Lit("QUICK FIX for '")
     ELSE Lit("COMPREHENSIVE FIX for '"))
    \o SpanOf(option) \o Lit("': ") \o SuggestionsOf(option)[1]

AlternativeLine(option) == Lit("  Alternative: ") \o SuggestionsOf(option)[2]

\* the context line of a consolidated error: its span and the number of merged issues
ContextLine(error) ==
    Lit("CONSOLIDATED ISSUE: '") \o SpanOf(error) \o Lit("' has ")
    \o Lit(ToString(Len(error.consolidated_from))) \o Lit(" overlapping problems")

Consolidated(error) ==
    "consolidated_from" \in DOMAIN error /\ error.consolidated_from # <<>>

\* the lines the options of an error get, from option number j on
RECURSIVE LinesOfOptions(_, _)
LinesOfOptions(options, j) ==
    IF j > Len(options) THEN <<>>
    ELSE (IF Actionable(options[j]) THEN <<FixLine(options[j])>> ELSE <<>>)
         \o (IF Len(SuggestionsOf(options[j])) >= 2
             THEN <<AlternativeLine(options[j])>> ELSE <<>>)
         \o LinesOfOptions(options, j + 1)

\* the number of lines of the block that start with one of the given chunks
CountLines(starts) ==
    Cardinality({k \in DOMAIN Block : Block[k][1].id \in starts})

\* the pairs <<error, option>> of the errors with options that satisfy P
OptionsSuchThat(P(_)) ==
    UNION {{<<i, j>> : j \in {k \in DOMAIN errors[i].fix_options :
                                P(errors[i].fix_options[k])}} : i \in WithOptions}

(* C16: in the prompt generate_prompt assembles, whatever the length budget *)
(* included or dropped, for every error that carries non-empty fix_options  *)
(* the fix-option block has the header line of the error's type and, in     *)
(* one run, the error's context line when it has consolidated_from and the  *)
(* lines of its options; over the block there is exactly one fix line per   *)
(* option of type quick or comprehensive with a suggestion, one Alternative *)
(* line per option with a second suggestion and no more, and one context    *)
(* line per consolidated error.                                             *)
C16_FixOptionBlockIgnoresBudget ==
    PromptAssembled =>
        /\ \A i \in WithOptions :
              /\ \E k \in DOMAIN Block : Block[k] = HeaderLine(errors[i])
              /\ RunIn((IF Consolidated(errors[i]) THEN <<ContextLine(errors[i])>>
                        ELSE <<>>)
                       \o LinesOfOptions(errors[i].fix_options, 1), Block)
        /\ CountLines({"QUICK FIX for '", "COMPREHENSIVE FIX for '"})
              = Cardinality(OptionsSuchThat(Actionable))
        /\ CountLines({"  Alternative: "})
              = Cardinality(OptionsSuchThat(LAMBDA o : Len(SuggestionsOf(o)) >= 2))
        /\ CountLines({"CONSOLIDATED ISSUE: '"})
              = Cardinality({i \in WithOptions : Consolidated(errors[i])})

\* the loop stopped at the type of an error with fix options, another error
\* with fix options is consolidated, and the block has the lines of both
C16_Witness ==
    /\ PromptAssembled
    /\ gp.st.stopped
    /\ \E i \in WithOptions : ErrorType(errors[i]) = gp.order[gp.i - 1].error_type
    /\ \E i \in WithOptions : Consolidated(errors[i])
    /\ CountLines({"=== "}) = 2
    /\ CountLines({"QUICK FIX for '", "COMPREHENSIVE FIX for '"}) = 3

\* generate_optimal_prompts has returned for a non-empty error list
OptimalReturned ==
    /\ pc = "done"
    /\ op = "generate_optimal_prompts"
    /\ errors # <<>>

(* C17: for a non-empty error list, the number of PassPlans                 *)
(* generate_optimal_prompts returns is the `passes` value that              *)
(* get_optimal_processing_strategy returns for the same errors.             *)
C17_PassesMatchPlans ==
    OptimalReturned => Len(result) = GetOptimalProcessingStrategy(errors).passes

\* the severities the table of _map_severity_to_priority knows
KnownSeverities == {"high", "medium", "low"}

(* C20: no error is put in the tier low.  For a non-empty error list        *)
(* generate_multi_pass_prompts, called directly or by                       *)
(* generate_optimal_prompts, returns at most three passes, none of type low *)
(* or general, whose error counts account for every error; and the `passes` *)
(* of a multi_pass strategy is at most 3.                                   *)
C20_LowTierAlwaysEmpty ==
    /\ (MultiPassReturned \/ (OptimalReturned /\ "strategy" \notin DOMAIN result[1])) =>
          /\ Len(result) <= 3
          /\ \A i \in DOMAIN result : result[i].pass_type \in {"urgent", "high", "medium"}
          /\ SumErrorCounts(result) = Len(errors)
    /\ (StrategyReturned /\ result.strategy = "multi_pass") => result.passes <= 3

\* errors of severity low, and of the two other known severities, went to
\* three passes, the last of type medium
C20_Witness ==
    /\ MultiPassReturned
    /\ \A sev \in KnownSeverities :
          \E i \in DOMAIN errors : "severity" \in DOMAIN errors[i] /\ errors[i].severity = sev
    /\ Len(result) = 3
    /\ result[3].pass_type = "medium"
    /\ result[3].error_count =
          Cardinality({i \in DOMAIN errors :
              "severity" \in DOMAIN errors[i] /\ errors[i].severity = "low"})

\* the groups of the processing order whose instructions the loop included:
\* those it came to, but for the one it stopped at, that have a rule config
Included ==
    {k \in DOMAIN gp.order :
        /\ k < gp.i
        /\ ~(gp.st.stopped /\ k = gp.i - 1)
        /\ ~IsEmptyDict(Get(prompt_config, gp.order[k].error_type, EmptyDict))}

(* C18: the primary command shown in the prompt generate_prompt returns is  *)
(* the primary_command of an error type whose instructions were included,   *)
(* never that of the type the loop stopped at or of a type after it.        *)
C18_DroppedTypeGivesNoCommand ==
    (PromptAssembled /\ TextLen(result.primary_command) > 0) =>
        \E k \in Included :
            /\ DefinesCommand(k)
            /\ result.primary_command =
                  prompt_config[gp.order[k].error_type].primary_command

====
